---- MODULE Spec2Model ----
(***************************************************************************)
(* Model of task3.py: a log-file analyser.  Strings are sequences of       *)
(* one-character strings, dictionaries are functions whose domain is the   *)
(* set of keys, lists are sequences.                                       *)
(***************************************************************************)
EXTENDS Integers, Sequences, FiniteSets, TLC

VARIABLES pc, argv, fs, file, pos, logs, counts, out, exit_status,
          line, parsed, level, filtered

vars == <<pc, argv, fs, file, pos, logs, counts, out, exit_status,
          line, parsed, level, filtered>>

----------------------------------------------------------------------------
(* Bounds *)

MaxLineLen == 8
MaxFileLines == 3
MaxLogs == 4

----------------------------------------------------------------------------
(* Characters and strings *)

\* characters str.strip() removes
Whitespace == {" ", "\t", "\n", "\r"}

LowerLetters == <<"a","b","c","d","e","f","g","h","i","j","k","l","m",
                  "n","o","p","q","r","s","t","u","v","w","x","y","z">>
UpperLetters == <<"A","B","C","D","E","F","G","H","I","J","K","L","M",
                  "N","O","P","Q","R","S","T","U","V","W","X","Y","Z">>

\* the characters of the model in code point order
CodeOrder == <<"\t", "\n", "\r", " ", "-", "0", "1", "2", ":">>
             \o UpperLetters \o LowerLetters

Ord(c) == CHOOSE i \in 1..Len(CodeOrder) : CodeOrder[i] = c

\* str.upper() on one character
UpperChar(c) ==
    IF \E i \in 1..Len(LowerLetters) : LowerLetters[i] = c
    THEN UpperLetters[CHOOSE i \in 1..Len(LowerLetters) : LowerLetters[i] = c]
    ELSE c

\* str.upper()
upper(s) == [i \in 1..Len(s) |-> UpperChar(s[i])]

\* str.__lt__ : lexicographic order by code point
RECURSIVE StrLess(_, _)
StrLess(a, b) ==
    IF b = <<>> THEN FALSE
    ELSE IF a = <<>> THEN TRUE
    ELSE IF a[1] # b[1] THEN Ord(a[1]) < Ord(b[1])
    ELSE StrLess(Tail(a), Tail(b))

RECURSIVE lstrip(_)
lstrip(s) == IF s # <<>> /\ s[1] \in Whitespace THEN lstrip(Tail(s)) ELSE s

RECURSIVE rstrip(_)
rstrip(s) ==
    IF s # <<>> /\ s[Len(s)] \in Whitespace
    THEN rstrip(SubSeq(s, 1, Len(s) - 1)) ELSE s

\* str.strip()
strip(s) == rstrip(lstrip(s))

\* str.split(sep, maxsplit) for a one-character separator
RECURSIVE split(_, _, _)
split(s, sep, maxsplit) ==
    IF maxsplit = 0 \/ ~(\E i \in 1..Len(s) : s[i] = sep)
    THEN <<s>>
    ELSE LET i == CHOOSE k \in 1..Len(s) :
                      s[k] = sep /\ \A j \in 1..(k - 1) : s[j] # sep
         IN  <<SubSeq(s, 1, i - 1)>>
             \o split(SubSeq(s, i + 1, Len(s)), sep, maxsplit - 1)

----------------------------------------------------------------------------
(* Dictionaries *)

EmptyDict == [k \in {} |-> <<>>]

\* truth value of a dict: non-empty
Truthy(d) == DOMAIN d # {}

\* log.get('level', '')
get_level(log) == IF "level" \in DOMAIN log THEN log["level"] ELSE <<>>

----------------------------------------------------------------------------
(* parse_log_line *)

parse_log_line(l) ==
    LET parts == split(strip(l), " ", 3)
    IN  IF Len(parts) < 4
        THEN EmptyDict
        ELSE [date |-> parts[1], time |-> parts[2],
              level |-> parts[3], message |-> parts[4]]

----------------------------------------------------------------------------
(* filter_logs_by_level *)

\* faulty variant: the levels are compared as they are
RECURSIVE filter_logs_by_level_exact(_, _)
filter_logs_by_level_exact(ls, lv) ==
    IF ls = <<>> THEN <<>>
    ELSE (IF get_level(Head(ls)) = lv THEN <<Head(ls)>> ELSE <<>>)
         \o filter_logs_by_level_exact(Tail(ls), lv)

RECURSIVE filter_logs_by_level(_, _)
filter_logs_by_level(ls, lv) ==
    IF ls = <<>> THEN <<>>
    ELSE (IF upper(get_level(Head(ls))) = upper(lv) THEN <<Head(ls)>> ELSE <<>>)
         \o filter_logs_by_level(Tail(ls), lv)

----------------------------------------------------------------------------
(* count_logs_by_level *)

\* faulty variant: counts[lv] = 1
Increment_reset(c, lv) ==
    [k \in DOMAIN c \cup {lv} |-> IF k = lv THEN 1 ELSE c[k]]

\* counts[lv] += 1 on a defaultdict(int)
Increment(c, lv) ==
    [k \in DOMAIN c \cup {lv} |->
        IF k = lv THEN (IF lv \in DOMAIN c THEN c[lv] ELSE 0) + 1 ELSE c[k]]

RECURSIVE CountLoop(_, _)
CountLoop(ls, c) ==
    IF ls = <<>> THEN c
    ELSE LET lv == get_level(Head(ls))
         IN  CountLoop(Tail(ls), IF lv # <<>> THEN Increment(c, lv) ELSE c)

count_logs_by_level(ls) == CountLoop(ls, EmptyDict)

----------------------------------------------------------------------------
(* display_log_counts *)

INFO == <<"I","N","F","O">>
DEBUG == <<"D","E","B","U","G">>
ERROR == <<"E","R","R","O","R">>
WARNING == <<"W","A","R","N","I","N","G">>

level_order == <<INFO, DEBUG, ERROR, WARNING>>

InLevelOrder(lv) == \E i \in 1..Len(level_order) : level_order[i] = lv

\* sorted(counts.items()) : the keys are distinct, so the order is that of
\* the level strings
RECURSIVE sorted(_)
sorted(S) ==
    IF S = {} THEN <<>>
    ELSE LET m == CHOOSE x \in S : \A y \in S \ {x} : StrLess(x, y)
         IN  <<m>> \o sorted(S \ {m})

RECURSIVE StandardRows(_, _)
StandardRows(order, c) ==
    IF order = <<>> THEN <<>>
    ELSE (IF Head(order) \in DOMAIN c
          THEN <<<<"row", Head(order), c[Head(order)]>>>> ELSE <<>>)
         \o StandardRows(Tail(order), c)

\* faulty variant: a key is left out when its upper case is a standard level
RECURSIVE OtherRows_nocase(_, _)
OtherRows_nocase(keys, c) ==
    IF keys = <<>> THEN <<>>
    ELSE (IF ~InLevelOrder(upper(Head(keys)))
          THEN <<<<"row", Head(keys), c[Head(keys)]>>>> ELSE <<>>)
         \o OtherRows_nocase(Tail(keys), c)

RECURSIVE OtherRows(_, _)
OtherRows(keys, c) ==
    IF keys = <<>> THEN <<>>
    ELSE (IF ~InLevelOrder(Head(keys))
          THEN <<<<"row", Head(keys), c[Head(keys)]>>>> ELSE <<>>)
         \o OtherRows(Tail(keys), c)

\* the lines display_log_counts prints
display_log_counts(c) ==
    <<<<"table_header">>>> \o StandardRows(level_order, c)
                           \o OtherRows(sorted(DOMAIN c), c)

----------------------------------------------------------------------------
(* display_log_details *)

DetailLines(ls) ==
    [i \in 1..Len(ls) |->
        <<"detail", ls[i]["date"], ls[i]["time"], ls[i]["message"]>>]

\* the lines display_log_details prints
display_log_details(ls, lv) ==
    LET filtered_logs == filter_logs_by_level(ls, lv)
    IN  IF filtered_logs = <<>>
        THEN <<<<"not_found", upper(lv)>>>>
        ELSE <<<<"details_header", upper(lv)>>>> \o DetailLines(filtered_logs)

----------------------------------------------------------------------------
(* Inputs of a program run *)

SP == <<" ">>
NL == <<"\n">>
D1 == <<"1", "-", "2">>
T1 == <<"0", ":", "1">>
T2 == <<"0", ":", "2">>
lower_info == <<"i","n","f","o">>
lower_error == <<"e","r","r","o","r">>
lower_debug == <<"d","e","b","u","g">>

LinePool ==
    { D1 \o SP \o T1 \o SP \o INFO \o SP \o <<"u", "p">> \o NL,
      D1 \o SP \o T2 \o SP \o lower_info \o SP \o <<"a", " ", " ", "b">> \o NL,
      D1 \o SP \o T1 \o SP \o ERROR \o SP \o <<"n", "o">> \o NL,
      D1 \o SP \o SP \o T2 \o SP \o ERROR \o SP \o <<"x">> \o NL,
      <<"b", "a", "d", " ", "l", "i", "n", "e">> \o NL,
      <<" ", "\t">> \o NL }

Files == UNION {[1..n -> LinePool] : n \in 0..MaxFileLines}

Prog == <<"t", "a", "s", "k">>
Path == <<"l", "o", "g">>

\* values of the optional second command-line argument
LevelArgs == {lower_error, INFO, lower_debug, <<>>}

ArgvPool == {<<Prog>>, <<Prog, Path>>} \cup {<<Prog, Path, lv>> : lv \in LevelArgs}

\* what open() and reading do with the path: the file is missing, it is
\* unreadable, reading fails on open (failat = 0) or on line failat, or all
\* is well
FsPool(f) ==
    {[kind |-> "ok", failat |-> 0], [kind |-> "noperm", failat |-> 0]}
    \cup {[kind |-> "ioerror", failat |-> k] : k \in 0..Len(f)}

----------------------------------------------------------------------------
(* main *)

Init ==
    /\ pc = "main"
    /\ argv \in ArgvPool
    /\ \/ /\ file \in Files
          /\ fs \in FsPool(file)
       \/ /\ file = <<>>
          /\ fs = [kind |-> "missing", failat |-> 0]
    /\ pos = 0
    /\ logs = <<>>
    /\ counts = EmptyDict
    /\ out = <<>>
    /\ exit_status = -1          \* the process has not exited
    /\ line = <<>>
    /\ parsed = EmptyDict
    /\ level = <<>>
    /\ filtered = <<>>

\* print(...); sys.exit(1)
Exit1(msg) ==
    /\ out' = Append(out, msg)
    /\ exit_status' = 1
    /\ pc' = "done"

\* faulty variant: the level argument is required too
Main_CheckArgs_three ==
    /\ pc = "main"
    /\ IF Len(argv) < 3
       THEN Exit1(<<"usage">>)
       ELSE /\ pc' = "open"
            /\ UNCHANGED <<out, exit_status>>
    /\ UNCHANGED <<argv, fs, file, pos, logs, counts, line, parsed, level, filtered>>

\* main, lines 147-152 : the argument check
Main_CheckArgs ==
    /\ pc = "main"
    /\ IF Len(argv) < 2
       THEN Exit1(<<"usage">>)
       ELSE /\ pc' = "open"
            /\ UNCHANGED <<out, exit_status>>
    /\ UNCHANGED <<argv, fs, file, pos, logs, counts, line, parsed, level, filtered>>

\* load_logs, line 40 : open(file_path) succeeds
Load_Open ==
    /\ pc = "open"
    /\ fs.kind = "ok" \/ (fs.kind = "ioerror" /\ fs.failat > 0)
    /\ pc' = "read"
    /\ pos' = 0
    /\ logs' = <<>>
    /\ UNCHANGED <<argv, fs, file, counts, out, exit_status, line, parsed, level, filtered>>

\* faulty variant: the except clauses print and fall through to the return
Load_Error_continue ==
    /\ \/ pc = "open" /\ fs.kind \in {"missing", "noperm"}
       \/ pc = "open" /\ fs.kind = "ioerror" /\ fs.failat = 0
       \/ pc = "read" /\ fs.kind = "ioerror" /\ fs.failat = pos + 1
    /\ out' = Append(out, CASE fs.kind = "missing" -> <<"error_not_found">>
                            [] fs.kind = "noperm" -> <<"error_permission">>
                            [] OTHER -> <<"error_read">>)
    /\ logs' = SelectSeq(logs, Truthy)
    /\ pc' = "loaded"
    /\ UNCHANGED <<argv, fs, file, pos, counts, exit_status, line, parsed, level, filtered>>

\* load_logs, lines 46-54 : the three except clauses
Load_Error ==
    /\ \/ pc = "open" /\ fs.kind \in {"missing", "noperm"}
       \/ pc = "open" /\ fs.kind = "ioerror" /\ fs.failat = 0
       \/ pc = "read" /\ fs.kind = "ioerror" /\ fs.failat = pos + 1
    /\ Exit1(CASE fs.kind = "missing" -> <<"error_not_found">>
               [] fs.kind = "noperm" -> <<"error_permission">>
               [] OTHER -> <<"error_read">>)
    /\ UNCHANGED <<argv, fs, file, pos, logs, counts, line, parsed, level, filtered>>

\* load_logs, line 43 : one iteration of the list comprehension
Load_ReadLine ==
    /\ pc = "read"
    /\ pos < Len(file)
    /\ ~(fs.kind = "ioerror" /\ fs.failat = pos + 1)
    /\ pos' = pos + 1
    /\ logs' = IF strip(file[pos + 1]) # <<>>
               THEN Append(logs, parse_log_line(file[pos + 1]))
               ELSE logs
    /\ UNCHANGED <<pc, argv, fs, file, counts, out, exit_status, line, parsed, level, filtered>>

\* faulty variant: the empty dicts are kept
Load_Return_nofilter ==
    /\ pc = "read"
    /\ pos = Len(file)
    /\ pc' = "loaded"
    /\ UNCHANGED <<argv, fs, file, pos, logs, counts, out, exit_status, line, parsed, level, filtered>>

\* load_logs, lines 45 and 56 : drop the empty dicts and return
Load_Return ==
    /\ pc = "read"
    /\ pos = Len(file)
    /\ logs' = SelectSeq(logs, Truthy)
    /\ pc' = "loaded"
    /\ UNCHANGED <<argv, fs, file, pos, counts, out, exit_status, line, parsed, level, filtered>>

\* main, lines 160-162
Main_CheckEmpty ==
    /\ pc = "loaded"
    /\ IF logs = <<>>
       THEN Exit1(<<"empty">>)
       ELSE /\ pc' = "count"
            /\ UNCHANGED <<out, exit_status>>
    /\ UNCHANGED <<argv, fs, file, pos, logs, counts, line, parsed, level, filtered>>

\* main, line 165
Main_Count ==
    /\ pc = "count"
    /\ counts' = count_logs_by_level(logs)
    /\ pc' = "display"
    /\ UNCHANGED <<argv, fs, file, pos, logs, out, exit_status, line, parsed, level, filtered>>

\* main, line 166
Main_Display ==
    /\ pc = "display"
    /\ out' = out \o display_log_counts(counts)
    /\ pc' = "details"
    /\ UNCHANGED <<argv, fs, file, pos, logs, counts, exit_status, line, parsed, level, filtered>>

\* level_filter = sys.argv[2] if len(sys.argv) > 2 else None, and its
\* truth value: None and '' are false
level_filter_truthy == Len(argv) > 2 /\ argv[3] # <<>>

\* main, lines 169-170, and the normal end of the process
Main_Details ==
    /\ pc = "details"
    /\ out' = IF level_filter_truthy
              THEN out \o display_log_details(logs, argv[3])
              ELSE out
    /\ exit_status' = 0
    /\ pc' = "done"
    /\ UNCHANGED <<argv, fs, file, pos, logs, counts, line, parsed, level, filtered>>

Next ==
    \/ Main_CheckArgs
    \/ Load_Open
    \/ Load_Error
    \/ Load_ReadLine
    \/ Load_Return
    \/ Main_CheckEmpty
    \/ Main_Count
    \/ Main_Display
    \/ Main_Details

Spec == Init /\ [][Next]_vars

----------------------------------------------------------------------------
(* parse_log_line on every line up to MaxLineLen *)

ParseAlphabet == {" ", "\t", "a", "b"}

Lines == UNION {[1..n -> ParseAlphabet] : n \in 0..MaxLineLen}

InitParse ==
    /\ pc = "parse"
    /\ line \in Lines
    /\ parsed = EmptyDict
    /\ argv = <<>>
    /\ fs = [kind |-> "ok", failat |-> 0]
    /\ file = <<>>
    /\ pos = 0
    /\ logs = <<>>
    /\ counts = EmptyDict
    /\ out = <<>>
    /\ exit_status = -1
    /\ level = <<>>
    /\ filtered = <<>>

Call_parse_log_line ==
    /\ pc = "parse"
    /\ parsed' = parse_log_line(line)
    /\ pc' = "parsed"
    /\ UNCHANGED <<argv, fs, file, pos, logs, counts, out, exit_status, line, level, filtered>>

NextParse == Call_parse_log_line

SpecParse == InitParse /\ [][NextParse]_vars

----------------------------------------------------------------------------
(* The functions over lists of records, on every list up to MaxLogs *)

Msg1 == <<"u", "p">>
Msg2 == <<"n", "o">>
ABC == <<"A", "B", "C">>

LogPool ==
    { [date |-> D1, time |-> T1, level |-> INFO, message |-> Msg1],
      [date |-> D1, time |-> T2, level |-> lower_info, message |-> Msg2],
      [date |-> D1, time |-> T1, level |-> DEBUG, message |-> Msg1],
      [date |-> D1, time |-> T1, level |-> WARNING, message |-> Msg1],
      [date |-> D1, time |-> T1, level |-> ABC, message |-> Msg1],
      [date |-> D1, time |-> T1, level |-> <<>>, message |-> Msg1],
      [date |-> D1, time |-> T1, message |-> Msg1] }

LogLists == UNION {[1..n -> LogPool] : n \in 0..MaxLogs}

LevelPool == {INFO, lower_info, <<"I", "n", "f", "o">>, lower_debug, ERROR, <<>>}

InitLevels ==
    /\ pc = "count"
    /\ logs \in LogLists
    /\ counts = EmptyDict
    /\ out = <<>>
    /\ level = <<>>
    /\ filtered = <<>>
    /\ argv = <<>>
    /\ fs = [kind |-> "ok", failat |-> 0]
    /\ file = <<>>
    /\ pos = 0
    /\ exit_status = -1
    /\ line = <<>>
    /\ parsed = EmptyDict

Call_count_logs_by_level ==
    /\ pc = "count"
    /\ counts' = count_logs_by_level(logs)
    /\ pc' = "display"
    /\ UNCHANGED <<argv, fs, file, pos, logs, out, exit_status, line, parsed, level, filtered>>

Call_display_log_counts ==
    /\ pc = "display"
    /\ out' = display_log_counts(counts)
    /\ pc' = "filter"
    /\ UNCHANGED <<argv, fs, file, pos, logs, counts, exit_status, line, parsed, level, filtered>>

Call_filter_logs_by_level ==
    /\ pc = "filter"
    /\ \E lv \in LevelPool :
          /\ level' = lv
          /\ filtered' = filter_logs_by_level(logs, lv)
    /\ pc' = "filtered"
    /\ UNCHANGED <<argv, fs, file, pos, logs, counts, out, exit_status, line, parsed>>

NextLevels ==
    \/ Call_count_logs_by_level
    \/ Call_display_log_counts
    \/ Call_filter_logs_by_level

SpecLevels == InitLevels /\ [][NextLevels]_vars

----------------------------------------------------------------------------
(* Vocabulary of the properties *)

\* length of the leading run of non-whitespace characters
RECURSIVE RunLen(_)
RunLen(s) == IF s = <<>> \/ s[1] \in Whitespace THEN 0 ELSE 1 + RunLen(Tail(s))

\* s without its first whitespace-delimited token
DropToken(s) ==
    LET t == lstrip(s) IN SubSeq(t, RunLen(t) + 1, Len(t))

\* the whitespace-delimited tokens of s
RECURSIVE Tokens(_)
Tokens(s) ==
    LET t == lstrip(s)
    IN  IF t = <<>> THEN <<>>
        ELSE <<SubSeq(t, 1, RunLen(t))>> \o Tokens(DropToken(t))

\* what remains of s after its third token, trimmed
RestAfterThird(s) == strip(DropToken(DropToken(DropToken(s))))

RecordKeys == {"date", "time", "level", "message"}

\* two characters that are equal or the two cases of one letter
SameLetter(x, y) ==
    \/ x = y
    \/ \E i \in 1..Len(LowerLetters) : {x, y} = {LowerLetters[i], UpperLetters[i]}

EqIgnoreCase(a, b) ==
    /\ Len(a) = Len(b)
    /\ \A i \in 1..Len(a) : SameLetter(a[i], b[i])

\* ascending lexicographic order of strings
LexLess(a, b) ==
    \E k \in 0..Len(a) :
        /\ k <= Len(b)
        /\ \A i \in 1..k : a[i] = b[i]
        /\ \/ k = Len(a) /\ k < Len(b)
           \/ k < Len(a) /\ k < Len(b) /\ Ord(a[k + 1]) < Ord(b[k + 1])

\* the k-th smallest element of a set of integers
Nth(S, k) == CHOOSE i \in S : Cardinality({j \in S : j < i}) = k - 1

RECURSIVE SumCounts(_)
SumCounts(c) ==
    IF DOMAIN c = {} THEN 0
    ELSE LET k == CHOOSE x \in DOMAIN c : TRUE
         IN  c[k] + SumCounts([x \in DOMAIN c \ {k} |-> c[x]])

\* the indices of the file's lines that give a record
Accepted(f) ==
    {i \in 1..Len(f) : strip(f[i]) # <<>> /\ Truthy(parse_log_line(f[i]))}

\* the levels of the rows display_log_counts printed, in print order
RowLevels(o) ==
    LET rows == SelectSeq(o, LAMBDA x : x[1] = "row")
    IN  [i \in 1..Len(rows) |-> rows[i][2]]

IsListing(x) == x[1] \in {"not_found", "details_header", "detail"}
IsTable(x) == x[1] \in {"table_header", "row"}

----------------------------------------------------------------------------
(* Properties *)

\* C1: a line with fewer than 4 whitespace-delimited tokens gives no record.
C1_FewTokensNoRecord ==
    (pc = "parsed" /\ Len(Tokens(line)) < 4) => ~Truthy(parsed)

\* C2: a line with 4 or more whitespace-delimited tokens gives the record of
\* its first three tokens and of what remains after the third.
C2_FieldsAreTokens ==
    (pc = "parsed" /\ Len(Tokens(line)) >= 4) =>
        /\ DOMAIN parsed = RecordKeys
        /\ parsed["date"] = Tokens(line)[1]
        /\ parsed["time"] = Tokens(line)[2]
        /\ parsed["level"] = Tokens(line)[3]
        /\ parsed["message"] = RestAfterThird(line)

\* C3: every record load_logs returns has its four fields, none empty.
C3_FieldsNonEmpty ==
    pc = "loaded" =>
        \A i \in 1..Len(logs) :
            /\ DOMAIN logs[i] = RecordKeys
            /\ \A k \in RecordKeys : logs[i][k] # <<>>

\* C4: count_logs_by_level maps each non-empty level string, case preserved,
\* to the number of records carrying exactly that string, and the counts sum
\* to the number of records with a non-empty level.
C4_CountsExact ==
    pc \in {"display", "filter", "filtered"} =>
        LET lvls == {get_level(logs[i]) : i \in 1..Len(logs)} \ {<<>>}
        IN  /\ DOMAIN counts = lvls
            /\ \A lv \in lvls :
                  counts[lv] =
                      Cardinality({i \in 1..Len(logs) : get_level(logs[i]) = lv})
            /\ SumCounts(counts) =
                  Cardinality({i \in 1..Len(logs) : get_level(logs[i]) # <<>>})

C4_Witness ==
    /\ pc = "display"
    /\ {INFO, lower_info} \subseteq DOMAIN counts
    /\ counts[INFO] = 2
    /\ \E i \in 1..Len(logs) : get_level(logs[i]) = <<>>

\* C5: filter_logs_by_level returns, in the original order, exactly the
\* records whose level equals the requested one ignoring letter case, so
\* requested levels that differ only in case give the same result.
C5_FilterExact ==
    pc = "filtered" =>
        LET idx == {i \in 1..Len(logs) : EqIgnoreCase(get_level(logs[i]), level)}
        IN  /\ Len(filtered) = Cardinality(idx)
            /\ \A k \in 1..Len(filtered) : filtered[k] = logs[Nth(idx, k)]
            /\ \A l2 \in LevelPool :
                  EqIgnoreCase(l2, level) =>
                      filter_logs_by_level(logs, l2) = filtered

C5_Witness ==
    /\ pc = "filtered"
    /\ level = lower_info
    /\ Len(filtered) = 2
    /\ Len(logs) = 4
    /\ get_level(filtered[1]) = lower_info
    /\ get_level(filtered[2]) = INFO
    /\ get_level(logs[2]) = DEBUG

\* C6 as stated: the rows start with INFO, DEBUG, ERROR, WARNING, each if some
\* key matches it ignoring case, then come the levels outside the fixed list
\* in ascending order.
C6_CaseInsensitiveOrder ==
    pc \in {"filter", "filtered"} =>
        LET rows == RowLevels(out)
            fixed == SelectSeq(level_order,
                         LAMBDA K : \E k \in DOMAIN counts : EqIgnoreCase(k, K))
        IN  /\ Len(rows) >= Len(fixed)
            /\ \A i \in 1..Len(fixed) : EqIgnoreCase(rows[i], fixed[i])
            /\ \A i \in (Len(fixed) + 1)..Len(rows) :
                  \A n \in 1..Len(level_order) : rows[i] # level_order[n]
            /\ \A i, j \in (Len(fixed) + 1)..Len(rows) :
                  i < j => LexLess(rows[i], rows[j])

\* C6 amended: one row per key; the keys that are exactly INFO, DEBUG, ERROR
\* or WARNING come first, in that order, then every other key in ascending
\* order.
C6_ExactOrder ==
    pc \in {"filter", "filtered"} =>
        LET rows == RowLevels(out)
            fixedIdx(lv) == CHOOSE n \in 1..Len(level_order) : level_order[n] = lv
            isFixed(lv) == \E n \in 1..Len(level_order) : level_order[n] = lv
        IN  /\ out[1] = <<"table_header">>
            /\ Len(out) = Len(rows) + 1
            /\ {rows[i] : i \in 1..Len(rows)} = DOMAIN counts
            /\ Len(rows) = Cardinality(DOMAIN counts)
            /\ \A i \in 1..Len(rows) : out[i + 1] = <<"row", rows[i], counts[rows[i]]>>
            /\ \A i, j \in 1..Len(rows) :
                  i < j =>
                      IF isFixed(rows[i])
                      THEN isFixed(rows[j]) => fixedIdx(rows[i]) < fixedIdx(rows[j])
                      ELSE ~isFixed(rows[j]) /\ LexLess(rows[i], rows[j])

C6_Witness ==
    /\ pc = "filter"
    /\ RowLevels(out) = <<INFO, DEBUG, ABC, lower_info>>

\* C7: the run ends with status 1 exactly when the path argument is missing,
\* the file is missing, unreadable or fails to read, or no line of it gives a
\* record; every other run ends with status 0.
C7_ExitStatus ==
    pc = "done" =>
        LET fail == \/ Len(argv) < 2
                    \/ fs.kind \in {"missing", "noperm", "ioerror"}
                    \/ Accepted(file) = {}
        IN  exit_status = IF fail THEN 1 ELSE 0

C7_Witness ==
    /\ pc = "done"
    /\ exit_status = 1
    /\ Len(argv) >= 2
    /\ fs.kind = "ok"
    /\ Len(file) = 2

\* C8: counting and the printing of the table and of the listing start only
\* once the whole file is read; after a file-level error the run ends with the
\* error message alone.
C8_LoadBeforeOutput ==
    /\ (counts # EmptyDict \/ \E i \in 1..Len(out) : IsTable(out[i]) \/ IsListing(out[i]))
          => /\ fs.kind = "ok"
             /\ pos = Len(file)
             /\ pc \in {"display", "details", "done"}
    /\ (pc = "done" /\ Len(argv) >= 2 /\ fs.kind # "ok")
          => /\ exit_status = 1
             /\ counts = EmptyDict
             /\ out = << CASE fs.kind = "missing" -> <<"error_not_found">>
                           [] fs.kind = "noperm" -> <<"error_permission">>
                           [] OTHER -> <<"error_read">> >>

C8_Witness ==
    /\ pc = "done"
    /\ fs.kind = "ioerror"
    /\ fs.failat = 3
    /\ Len(logs) = 2
    /\ \A i \in 1..2 : Truthy(logs[i])

\* C9: after a successful load with a record, the listing is printed after
\* the table exactly when a level argument was given.
C9_ListingIffArgument ==
    (pc = "done" /\ exit_status = 0) =>
        /\ (\E i \in 1..Len(out) : IsListing(out[i])) <=> Len(argv) > 2
        /\ \A i, j \in 1..Len(out) : (IsListing(out[i]) /\ IsTable(out[j])) => j < i

\* C10: load_logs returns, in file order, one record for each line that is
\* not blank and that parse_log_line accepts, and nothing else is counted.
C10_LoadExact ==
    /\ pc = "loaded" =>
          /\ Len(logs) = Cardinality(Accepted(file))
          /\ \A k \in 1..Len(logs) :
                logs[k] = parse_log_line(file[Nth(Accepted(file), k)])
    /\ pc \in {"display", "details"} =>
          SumCounts(counts) <= Cardinality(Accepted(file))

C10_Witness ==
    /\ pc = "loaded"
    /\ Len(file) = 3
    /\ Len(logs) = 1
    /\ strip(file[1]) = <<>>
    /\ ~Truthy(parse_log_line(file[2]))

====
